---- MODULE Spec2Model ----
(***************************************************************************)
(* State replication between one master (StatefulGame, server.ts) and its  *)
(* client mirrors (GameClient / ReduxGameClient, client.ts).               *)
(*                                                                         *)
(* One action of the model is one macrotask of the single-threaded         *)
(* JavaScript event loop: an application call of emitEvent, the arrival of *)
(* one transport message, or the firing of the debounce timer.  Handlers   *)
(* supplied by the game author are small programs (sequences of setState   *)
(* and emitEvent calls) that the model interprets.                         *)
(***************************************************************************)
EXTENDS Integers, Sequences, FiniteSets, TLC

\* ------------------------------------------------------------- bounds
MaxEmits == 2        \* emitEvent calls made by application code in one run
MaxQueue == 2        \* UPDATE messages in flight to one client
ScoreMod == 2        \* the example game counts its score modulo ScoreMod

\* ---------------------------------------------------- program constants
SERVER == 0
CLIENT == 1
EVENT == "_event"
UPDATE == "_update"
ACTION_REPLACE_STATE == "_REPLACE_STATE"
STATE_UPDATE == "state-update"

MasterId == 0
Players == {1, 2}
Roamers == {2}       \* the players that leave and join the room during a run
Player(a) == [actorId |-> a]
UNDEFINED == [undefined |-> TRUE]
MasterClient == {MasterId}

\* ------------------------------------------------------------ variables
VARIABLES
  players,    \* Game.players: actor ids in the room, master excluded
  state,      \* StatefulGame.state, the authoritative state
  timers,     \* pending timer callbacks of the debounced broadcastState
  chan,       \* transport: chan[a] = custom events in flight to actor a
  store,      \* store[c] = state held by the store of client c
  emits,      \* emitEvent calls made by application code so far
  notifs,     \* history: broadcastState calls since the last flush
  dirty,      \* history: dirty[c] = c mutated its state since its last snapshot
  present,    \* history: the players in the room when the latest change notification was made
  synced,     \* history: synced[c] = c applied the snapshot of the latest flush and made no setState since
  last,       \* history: what the last macrotask did (kind, actor, trace)
  reducer,    \* the reducer handed to createReduxGameClient
  rstore,     \* state held by the store of the ReduxGameClient
  rchan,      \* snapshots of UPDATE messages in flight to the ReduxGameClient
  rlast,      \* history: what the last macrotask of the Reducer variant did
  rmaster,    \* the ReduxGame of the master: state of its store, timers, EVENTs in flight to it
  machine,    \* the XStateGame of the master: value and context of its service, timers
  mlast,      \* history: what the last macrotask of the Machine variant did
  faulty,     \* actor id of the player the filter throws for, 0 when it never throws
  variant     \* the variant of the game this room runs: "merge", "redux" or "machine"

gameVars == <<players, state, timers, chan, store, emits, notifs, dirty, present, synced, last>>
reduxVars == <<reducer, rstore, rchan, rlast, rmaster>>
machineVars == <<machine, mlast>>
setup == <<faulty, variant>>
vars == <<gameVars, reduxVars, machineVars, setup>>

\* ------------------------------------------------------------- helpers
\* Object spread { ...s, ...p }.
Spread(s, p) ==
  [k \in (DOMAIN s) \cup (DOMAIN p) |-> IF k \in DOMAIN p THEN p[k] ELSE s[k]]

\* JavaScript evaluates an argument once, before the call: F applied to the
\* value of x
CallByValue(x, F(_)) == CHOOSE r \in {F(v) : v \in {x}} : TRUE

RECURSIVE SortedSeq(_)
SortedSeq(S) ==
  IF S = {} THEN <<>>
  ELSE LET m == CHOOSE x \in S : \A y \in S : x <= y
       IN <<m>> \o SortedSeq(S \ {m})

\* mutant: the list of the players in the room when the change was made
playerList_atChange(ps) ==
  LET s == SortedSeq(present) IN [i \in 1..Len(s) |-> Player(s[i])]

\* Game.players as a list of Player objects.
playerList(ps) == LET s == SortedSeq(ps) IN [i \in 1..Len(s) |-> Player(s[i])]

\* Room.getPlayer(actorId)
\* mutant: the sender is not found
getPlayer_missing(ps, senderId) == UNDEFINED

getPlayer(ps, senderId) == IF senderId \in ps THEN Player(senderId) ELSE UNDEFINED

SelectTrace(trace, tag) == SelectSeq(trace, LAMBDA e : e.t = tag)

\* ----------------------------------------------- the example game definition
initialState == [score |-> 0, hands |-> [a \in Players |-> a]]

Swap(h) == [a \in DOMAIN h |-> h[CHOOSE b \in DOMAIN h : b # a]]

SetAdd == [op |-> "setState", arg |-> "add"]
SetSwap == [op |-> "setState", arg |-> "swap"]
SetLit(p) == [op |-> "setState", arg |-> "lit", partial |-> p]
Emit(name, payload) ==
  [op |-> "emitEvent", name |-> name, payload |-> payload, options |-> [emitter |-> UNDEFINED]]

\* operator.emitEvent(name, payload, { emitter })
EmitAs(name, payload, emitter) ==
  [op |-> "emitEvent", name |-> name, payload |-> payload, options |-> [emitter |-> emitter]]

Throw == [op |-> "throw"]

\* mutant: the wrapper tests where the event is handled (serverOnly)
fromServerOnly_guard_env(event) == event.env = SERVER

\* the test of the handler fromServerOnly returns: the inner handler runs
\* when the event was dispatched in the master process
fromServerOnly_guard(event) == event.emitterEnv = SERVER

\* fromServerOnly(handler): the handler that makes the test first
fromServerOnly(ops) == <<[op |-> "fromServerOnly"]>> \o ops
P1 == [n |-> 1]
P0 == [n |-> 0]
\* a payload whose keys collide with the context keys of the envelope
Spoof == [n |-> 1, emitter |-> UNDEFINED, emitterEnv |-> SERVER, env |-> 2,
          players |-> {}, type |-> "deal", payload |-> [n |-> 0]]

\* events of defineGame({ events }) on the master
events ==
  [score |-> <<SetAdd>>,
   deal  |-> <<SetSwap, SetAdd>>,
   ping  |-> <<>>,
   chain |-> <<Emit("score", P1)>>,
   fail  |-> <<SetAdd, Throw, SetSwap>>,
   grant |-> fromServerOnly(<<SetSwap>>),
   relay |-> <<EmitAs("ping", P1, Player(2))>>]

\* events of createGameClient({ events })
clientEvents ==
  [score |-> <<SetAdd>>,
   ping  |-> <<SetLit([guess |-> 1])>>,
   chain |-> <<Emit("score", P1)>>,
   grant |-> fromServerOnly(<<SetSwap>>)]

Inputs ==
  {<<"score", P1>>, <<"score", Spoof>>, <<"deal", P1>>, <<"ping", P1>>,
   <<"chain", P1>>, <<"unknown", P1>>, <<"score", P0>>, <<"fail", P1>>,
   <<"grant", Spoof>>, <<"relay", P1>>}

\* options of an emitEvent call of the application on the master: none, or
\* acting as player 1
EmitOptions == {[emitter |-> UNDEFINED], [emitter |-> Player(1)]}

\* the filter throws for this player
filterThrows(player) == player.actorId = faulty

\* filter of defineGame({ filter }): each player is shown its own hand
filter(st, player) == Spread(st, [hand |-> st.hands[player.actorId]])

\* the partial a handler passes to setState
PartialOf(op, st, event) ==
  CASE op.arg = "add"  -> [score |-> (st.score + event.payload.n) % ScoreMod]
    [] op.arg = "swap" -> [hands |-> Swap(st.hands)]
    [] op.arg = "lit"  -> op.partial

\* ------------------------------------------------------------ transport
Msg(eventId, eventData, senderId) ==
  [eventId |-> eventId, eventData |-> eventData, senderId |-> senderId]

\* Play.sendEvent(eventId, eventData, { receiverGroup | targetActorIds })
sendEvent(acc, eventId, eventData, senderId, receivers) ==
  CallByValue(Msg(eventId, eventData, senderId), LAMBDA msg :
    [acc EXCEPT !.out = Append(@, [msg |-> msg, to |-> receivers]),
                !.trace = Append(@, [t |-> "send", msg |-> msg, to |-> receivers])])

RECURSIVE Transport(_, _)
Transport(ch, out) ==
  IF out = <<>> THEN ch
  ELSE CallByValue(
         [a \in DOMAIN ch |->
            IF a \in Head(out).to THEN Append(ch[a], Head(out).msg) ELSE ch[a]],
         LAMBDA delivered : Transport(delivered, Tail(out)))

\* ---------------------------------------------------------------- master
\* mutant: every call schedules a timer of its own
debounce_each(t) == t + 1

\* mutant: the call is swallowed, no timer is scheduled
debounce_dropped(t) == t

\* lodash debounce(func, 0): a call schedules a timer unless one is pending
debounce(t) == IF t = 0 THEN 1 ELSE t

\* mutant: every snapshot goes to all the players
RECURSIVE broadcastState_toAll(_, _)
broadcastState_toAll(acc, list) ==
  IF list = <<>> THEN acc
  ELSE IF filterThrows(Head(list))
    THEN [acc EXCEPT !.thrown = TRUE, !.trace = Append(@, [t |-> "throw"])]
  ELSE CallByValue(
         sendEvent(acc, UPDATE, filter(acc.state, Head(list)), MasterId, acc.players),
         LAMBDA sent : broadcastState_toAll(sent, Tail(list)))

\* the body of broadcastState, run by the timer
RECURSIVE broadcastState(_, _)
broadcastState(acc, list) ==
  IF list = <<>> THEN acc
  ELSE IF filterThrows(Head(list))
    THEN [acc EXCEPT !.thrown = TRUE, !.trace = Append(@, [t |-> "throw"])]
  ELSE CallByValue(
         sendEvent(acc, UPDATE, filter(acc.state, Head(list)),
                   MasterId, {Head(list).actorId}),
         LAMBDA sent : broadcastState(sent, Tail(list)))

\* mutant: the method is not deferred, each call broadcasts at once
callBroadcastState_sync(acc) ==
  broadcastState([acc EXCEPT !.notifs = @ + 1,
                             !.trace = Append(@, [t |-> "broadcastState"])],
                 playerList(acc.players))

\* a call of the decorated broadcastState method
callBroadcastState(acc) ==
  [acc EXCEPT !.timers = debounce(@),
              !.notifs = @ + 1,
              !.trace = Append(@, [t |-> "broadcastState"])]

\* mutant: the partial replaces the state
StatefulGame_setState_replace(acc, partial) ==
  callBroadcastState(
    [acc EXCEPT !.state = partial,
                !.trace = Append(@, [t |-> "setState", partial |-> partial])])

\* mutant: the change notification is made only when the merge changed the state
StatefulGame_setState_diffed(acc, partial) ==
  IF Spread(acc.state, partial) = acc.state
    THEN [acc EXCEPT !.trace = Append(@, [t |-> "setState", partial |-> partial])]
    ELSE callBroadcastState(
           [acc EXCEPT !.state = Spread(@, partial),
                       !.trace = Append(@, [t |-> "setState", partial |-> partial])])

StatefulGame_setState(acc, partial) ==
  callBroadcastState(
    [acc EXCEPT !.state = Spread(@, partial),
                !.trace = Append(@, [t |-> "setState", partial |-> partial])])

RECURSIVE StatefulGame_run(_, _, _)
RECURSIVE StatefulGame_handleEvent(_, _)
RECURSIVE internalEmitEvent(_, _, _, _, _)
RECURSIVE emitEvent(_, _, _, _)

\* mutant: the payload is spread over the context
internalEmitEvent_payloadLast(acc, name, payload, emitterEnv, emitter) ==
  LET context == [emitter |-> emitter, emitterEnv |-> emitterEnv,
                  env |-> SERVER, players |-> acc.players]
  IN CallByValue(
       Spread(Spread(context, payload), [payload |-> payload, type |-> name]),
       LAMBDA event : StatefulGame_handleEvent(acc, event))

\* mutant: the event is also forwarded to the players
internalEmitEvent_forwarded(acc, name, payload, emitterEnv, emitter) ==
  LET context == [emitter |-> emitter, emitterEnv |-> emitterEnv,
                  env |-> SERVER, players |-> acc.players]
  IN CallByValue(
       sendEvent(acc, EVENT, [name |-> name, payload |-> payload], MasterId, acc.players),
       LAMBDA a1 :
         CallByValue(
           Spread(Spread(payload, context), [payload |-> payload, type |-> name]),
           LAMBDA event : StatefulGame_handleEvent(a1, event)))

internalEmitEvent(acc, name, payload, emitterEnv, emitter) ==
  LET context == [emitter |-> emitter, emitterEnv |-> emitterEnv,
                  env |-> SERVER, players |-> acc.players]
  IN CallByValue(
       Spread(Spread(payload, context), [payload |-> payload, type |-> name]),
       LAMBDA event : StatefulGame_handleEvent(acc, event))

\* mutant: the emitter option is dropped
emitEvent_noEmitter(acc, name, payload, options) ==
  internalEmitEvent(acc, name, payload, SERVER, UNDEFINED)

emitEvent(acc, name, payload, options) ==
  internalEmitEvent(acc, name, payload, SERVER, options.emitter)

\* mutant: the handler returns at once and its body runs afterwards
StatefulGame_handleEvent_deferred(acc, event) ==
  CallByValue(
    [acc EXCEPT !.trace = Append(@, [t |-> "handleEvent", event |-> event])],
    LAMBDA a1 :
      IF event.type \in DOMAIN events
        THEN StatefulGame_run(
               [a1 EXCEPT !.trace = Append(Append(@, [t |-> "handler", event |-> event]),
                                           [t |-> "return", event |-> event])],
               events[event.type], event)
        ELSE a1)

\* mutant: a fault of the handler is caught and the state is rolled back
StatefulGame_handleEvent_rollback(acc, event) ==
  CallByValue(
    [acc EXCEPT !.trace = Append(@, [t |-> "handleEvent", event |-> event])],
    LAMBDA a1 :
      IF event.type \in DOMAIN events
        THEN CallByValue(
               StatefulGame_run(
                 [a1 EXCEPT !.trace = Append(@, [t |-> "handler", event |-> event])],
                 events[event.type], event),
               LAMBDA a2 :
                 IF a2.thrown THEN [a2 EXCEPT !.state = a1.state, !.thrown = FALSE]
                 ELSE [a2 EXCEPT !.trace = Append(@, [t |-> "return", event |-> event])])
        ELSE a1)

\* mutant: the change notification is made after every event routed
StatefulGame_handleEvent_notifying(acc, event) ==
  CallByValue(
    [acc EXCEPT !.trace = Append(@, [t |-> "handleEvent", event |-> event])],
    LAMBDA a1 :
      IF event.type \in DOMAIN events
        THEN CallByValue(
               StatefulGame_run(
                 [a1 EXCEPT !.trace = Append(@, [t |-> "handler", event |-> event])],
                 events[event.type], event),
               LAMBDA a2 :
                 IF a2.thrown THEN a2
                 ELSE callBroadcastState(
                        [a2 EXCEPT !.trace = Append(@, [t |-> "return", event |-> event])]))
        ELSE callBroadcastState(a1))

\* mutant: the handler is called without looking whether there is one
StatefulGame_handleEvent_unguarded(acc, event) ==
  CallByValue(
    [acc EXCEPT !.trace = Append(@, [t |-> "handleEvent", event |-> event])],
    LAMBDA a1 :
      IF event.type \in DOMAIN events
        THEN CallByValue(
               StatefulGame_run(
                 [a1 EXCEPT !.trace = Append(@, [t |-> "handler", event |-> event])],
                 events[event.type], event),
               LAMBDA a2 :
                 IF a2.thrown THEN a2
                 ELSE [a2 EXCEPT !.trace = Append(@, [t |-> "return", event |-> event])])
        ELSE [a1 EXCEPT !.thrown = TRUE, !.trace = Append(@, [t |-> "throw"])])

StatefulGame_handleEvent(acc, event) ==
  CallByValue(
    [acc EXCEPT !.trace = Append(@, [t |-> "handleEvent", event |-> event])],
    LAMBDA a1 :
      IF event.type \in DOMAIN events
        THEN CallByValue(
               StatefulGame_run(
                 [a1 EXCEPT !.trace = Append(@, [t |-> "handler", event |-> event])],
                 events[event.type], event),
               LAMBDA a2 :
                 IF a2.thrown THEN a2
                 ELSE [a2 EXCEPT !.trace = Append(@, [t |-> "return", event |-> event])])
        ELSE a1)

\* mutant: an event emitted by a handler inherits the origin and the emitter
\* of the event the handler is handling
StatefulGame_run_inherit(acc, ops, event) ==
  IF ops = <<>> \/ acc.thrown THEN acc
  ELSE LET op == Head(ops)
       IN IF op.op = "fromServerOnly" /\ ~fromServerOnly_guard(event) THEN acc
          ELSE CallByValue(
            IF op.op = "setState"
              THEN CallByValue(PartialOf(op, acc.state, event),
                               LAMBDA partial : StatefulGame_setState(acc, partial))
            ELSE IF op.op = "throw"
              THEN [acc EXCEPT !.thrown = TRUE, !.trace = Append(@, [t |-> "throw"])]
            ELSE IF op.op = "fromServerOnly" THEN acc
              ELSE internalEmitEvent(acc, op.name, op.payload,
                                     event.emitterEnv, event.emitter),
            LAMBDA a1 : StatefulGame_run(a1, Tail(ops), event))

\* the body of a handler of the master: its calls on the operator, in order
StatefulGame_run(acc, ops, event) ==
  IF ops = <<>> \/ acc.thrown THEN acc
  ELSE LET op == Head(ops)
       IN IF op.op = "fromServerOnly" /\ ~fromServerOnly_guard(event) THEN acc
          ELSE CallByValue(
            IF op.op = "setState"
              THEN CallByValue(PartialOf(op, acc.state, event),
                               LAMBDA partial : StatefulGame_setState(acc, partial))
            ELSE IF op.op = "throw"
              THEN [acc EXCEPT !.thrown = TRUE, !.trace = Append(@, [t |-> "throw"])]
            ELSE IF op.op = "fromServerOnly" THEN acc
              ELSE emitEvent(acc, op.name, op.payload, op.options),
            LAMBDA a1 : StatefulGame_run(a1, Tail(ops), event))

MasterAcc ==
  [state |-> state, timers |-> timers, notifs |-> notifs, players |-> players,
   thrown |-> FALSE, trace |-> <<>>, out |-> <<>>]

\* ---------------------------------------------------------------- client
\* the reducer of TraceableGameClient's store
TraceableGameClient_reducer(st, action) ==
  IF action.type = ACTION_REPLACE_STATE THEN action.payload ELSE st

\* store.dispatch: reduce, then call the subscriber emitStateUpdateEvent
\* mutant: the subscriber is called only when the dispatch changed the state
GameClient_dispatch_diffed(acc, action) ==
  CallByValue(TraceableGameClient_reducer(acc.state, action), LAMBDA next :
    IF next = acc.state THEN acc
    ELSE [acc EXCEPT !.state = next,
                     !.trace = Append(@, [t |-> STATE_UPDATE, state |-> next])])

GameClient_dispatch(acc, action) ==
  CallByValue(TraceableGameClient_reducer(acc.state, action), LAMBDA next :
    [acc EXCEPT !.state = next,
                !.trace = Append(@, [t |-> STATE_UPDATE, state |-> next])])

\* set state(nextState)
GameClient_setter(acc, nextState) ==
  GameClient_dispatch(acc, [type |-> ACTION_REPLACE_STATE, payload |-> nextState])

GameClient_setState(acc, partial) ==
  GameClient_setter(
    [acc EXCEPT !.trace = Append(@, [t |-> "setState", partial |-> partial]),
                !.dirty = TRUE],
    Spread(acc.state, partial))

\* mutant: the snapshot is merged into the state
GameClient_onUpdate_merge(acc, nextState) ==
  GameClient_setter([acc EXCEPT !.dirty = FALSE], Spread(acc.state, nextState))

GameClient_onUpdate(acc, nextState) ==
  GameClient_setter([acc EXCEPT !.dirty = FALSE], nextState)

\* mutant: the EVENT goes to the whole room
sendEventToServer_all(acc, name, payload) ==
  sendEvent(acc, EVENT, [name |-> name, payload |-> payload], acc.me,
            MasterClient \cup acc.players)

sendEventToServer(acc, name, payload) ==
  sendEvent(acc, EVENT, [name |-> name, payload |-> payload], acc.me, MasterClient)

RECURSIVE GameClient_run(_, _, _)
RECURSIVE GameClient_handleEvent(_, _)
RECURSIVE StatefulGameClient_emitEvent(_, _, _)

\* mutant: the client stamps the environment of the master
StatefulGameClient_emitEvent_envServer(acc, name, payload) ==
  LET a0 == [acc EXCEPT !.trace = Append(@, [t |-> "emitEvent", name |-> name,
                                             payload |-> payload])]
      context == [emitter |-> Player(acc.me), emitterEnv |-> CLIENT,
                  env |-> SERVER, players |-> acc.players]
  IN CallByValue(sendEventToServer(a0, name, payload), LAMBDA a1 :
       CallByValue(
         Spread(Spread(payload, context), [payload |-> payload, type |-> name]),
         LAMBDA event : GameClient_handleEvent(a1, event)))

\* mutant: the payload is spread over the context
StatefulGameClient_emitEvent_payloadLast(acc, name, payload) ==
  LET a0 == [acc EXCEPT !.trace = Append(@, [t |-> "emitEvent", name |-> name,
                                             payload |-> payload])]
      context == [emitter |-> Player(acc.me), emitterEnv |-> CLIENT,
                  env |-> CLIENT, players |-> acc.players]
  IN CallByValue(sendEventToServer(a0, name, payload), LAMBDA a1 :
       CallByValue(
         Spread(Spread(context, payload), [payload |-> payload, type |-> name]),
         LAMBDA event : GameClient_handleEvent(a1, event)))

StatefulGameClient_emitEvent(acc, name, payload) ==
  LET a0 == [acc EXCEPT !.trace = Append(@, [t |-> "emitEvent", name |-> name,
                                             payload |-> payload])]
      context == [emitter |-> Player(acc.me), emitterEnv |-> CLIENT,
                  env |-> CLIENT, players |-> acc.players]
  IN CallByValue(sendEventToServer(a0, name, payload), LAMBDA a1 :
       CallByValue(
         Spread(Spread(payload, context), [payload |-> payload, type |-> name]),
         LAMBDA event : GameClient_handleEvent(a1, event)))

GameClient_handleEvent(acc, event) ==
  CallByValue(
    [acc EXCEPT !.trace = Append(@, [t |-> "handleEvent", event |-> event])],
    LAMBDA a1 :
      IF event.type \in DOMAIN clientEvents
        THEN CallByValue(
               GameClient_run(
                 [a1 EXCEPT !.trace = Append(@, [t |-> "handler", event |-> event])],
                 clientEvents[event.type], event),
               LAMBDA a2 :
                 [a2 EXCEPT !.trace = Append(@, [t |-> "return", event |-> event])])
        ELSE a1)

\* mutant: the emitEvent given to a handler handles the event on the client
\* without sending it
GameClient_run_localEmit(acc, ops, event) ==
  IF ops = <<>> THEN acc
  ELSE LET op == Head(ops)
       IN IF op.op = "fromServerOnly" /\ ~fromServerOnly_guard(event) THEN acc
          ELSE CallByValue(
            IF op.op = "setState"
              THEN CallByValue(PartialOf(op, acc.state, event),
                               LAMBDA partial : GameClient_setState(acc, partial))
            ELSE IF op.op = "fromServerOnly" THEN acc
              ELSE CallByValue(
                     Spread(Spread(op.payload,
                                   [emitter |-> Player(acc.me), emitterEnv |-> CLIENT,
                                    env |-> CLIENT, players |-> acc.players]),
                            [payload |-> op.payload, type |-> op.name]),
                     LAMBDA nested : GameClient_handleEvent(acc, nested)),
            LAMBDA a1 : GameClient_run(a1, Tail(ops), event))

GameClient_run(acc, ops, event) ==
  IF ops = <<>> THEN acc
  ELSE LET op == Head(ops)
       IN IF op.op = "fromServerOnly" /\ ~fromServerOnly_guard(event) THEN acc
          ELSE CallByValue(
            IF op.op = "setState"
              THEN CallByValue(PartialOf(op, acc.state, event),
                               LAMBDA partial : GameClient_setState(acc, partial))
            ELSE IF op.op = "fromServerOnly" THEN acc
              ELSE StatefulGameClient_emitEvent(acc, op.name, op.payload),
            LAMBDA a1 : GameClient_run(a1, Tail(ops), event))

ClientAcc(c) ==
  [state |-> store[c], me |-> c, players |-> players, dirty |-> dirty[c],
   trace |-> <<>>, out |-> <<>>]

\* mutant: the listener drops what the master sends
onCustomEvent_dropMaster(acc, m) ==
  IF m.senderId = MasterId THEN acc
  ELSE IF m.eventId = UPDATE THEN GameClient_onUpdate(acc, m.eventData)
  ELSE acc

\* mutant: the listener does not look at the sender
onCustomEvent_anySender(acc, m) ==
  IF m.eventId = UPDATE THEN GameClient_onUpdate(acc, m.eventData)
  ELSE acc

\* the CUSTOM_EVENT listener of StatefulGameClient
onCustomEvent(acc, m) ==
  IF m.senderId # MasterId THEN acc
  ELSE IF m.eventId = UPDATE THEN GameClient_onUpdate(acc, m.eventData)
  ELSE acc


\* ------------------------------------------------- Reducer client variant
\* reducers a game author may hand to createReduxGameClient
Reducers == {"plain", "audit", "strict"}
reducerInitialState == [count |-> 0]
INIT_ACTION == [type |-> "@@redux/INIT"]

\* the author's reducer (state = reducerInitialState, action) => state
authorReducer(kind, st, action) ==
  LET s0 == IF st = UNDEFINED THEN reducerInitialState ELSE st
  IN IF action.type = "inc" THEN Spread(s0, [count |-> (s0.count + 1) % ScoreMod])
     ELSE CASE kind = "plain"  -> s0                                  \* default: return state
            [] kind = "audit"  -> Spread(s0, [seen |-> action.type])  \* notes every action
            [] kind = "strict" -> reducerInitialState                 \* resets on unknown actions

\* rootReducer of the constructor; the result and the calls made of the author's reducer
ReduxGameClient_rootReducer(kind, st, action) ==
  IF action.type = ACTION_REPLACE_STATE
    THEN [state |-> authorReducer(kind, action.payload, action),
          calls |-> <<[state |-> action.payload, action |-> action]>>]
    ELSE [state |-> authorReducer(kind, st, action),
          calls |-> <<[state |-> st, action |-> action]>>]

\* snapshots the master may send to the client
Snapshots == {[count |-> n] : n \in 0..(ScoreMod - 1)}

\* events of defineReduxGame({ events }) and createReduxGameClient({ events }):
\* the handler of "inc" dispatches the action { type: "inc" }
reduxEvents == [inc |-> [type |-> "inc"]]
ReduxInputs == {"inc", "unknown"}

\* ReduxGameClient.handleEvent: the handler, when there is one, dispatches;
\* the subscriber emitStateUpdateEvent runs after the dispatch
ReduxGameClient_handleEvent(kind, st, name) ==
  IF name \in DOMAIN reduxEvents
    THEN LET r == ReduxGameClient_rootReducer(kind, st, reduxEvents[name])
         IN [state |-> r.state, calls |-> r.calls, emitted |-> <<r.state>>]
    ELSE [state |-> st, calls |-> <<>>, emitted |-> <<>>]

\* ReduxGame.handleEvent: the handler, when there is one, dispatches; the
\* subscriber broadcastState runs after the dispatch
ReduxGame_handleEvent(kind, m, name) ==
  IF name \in DOMAIN reduxEvents
    THEN [m |-> [m EXCEPT !.state = authorReducer(kind, @, reduxEvents[name]),
                          !.timers = debounce(@)],
          calls |-> <<[state |-> m.state, action |-> reduxEvents[name]]>>,
          notified |-> 1]
    ELSE [m |-> m, calls |-> <<>>, notified |-> 0]

\* an UPDATE with an arbitrary snapshot is in flight to the client
ReduxSend(v) ==
  /\ Len(rchan) < MaxQueue
  /\ rchan' = Append(rchan, v)
  /\ rlast' = [kind |-> "send", calls |-> <<>>, emitted |-> <<>>, notified |-> 0]
  /\ UNCHANGED <<reducer, rstore, rmaster, gameVars, machineVars, setup>>

\* onUpdate: the UPDATE reaches the client, which dispatches the replace action
ReduxGameClient_onUpdate ==
  /\ rchan # <<>>
  /\ LET action == [type |-> ACTION_REPLACE_STATE, payload |-> Head(rchan)]
         r == ReduxGameClient_rootReducer(reducer, rstore, action)
     IN /\ rstore' = r.state
        /\ rlast' = [kind |-> "update", value |-> Head(rchan), calls |-> r.calls,
                     emitted |-> <<r.state>>, notified |-> 0]
  /\ rchan' = Tail(rchan)
  /\ UNCHANGED <<reducer, rmaster, gameVars, machineVars, setup>>

\* emitEvent(name) of the client: the EVENT is sent to the master, then the
\* handler runs
ReduxGameClient_emitEvent(name) ==
  /\ Len(rmaster.inbox) < MaxQueue
  /\ rmaster' = [rmaster EXCEPT !.inbox = Append(@, name)]
  /\ LET r == ReduxGameClient_handleEvent(reducer, rstore, name)
     IN /\ rstore' = r.state
        /\ rlast' = [kind |-> "clientEmit", name |-> name, calls |-> r.calls,
                     emitted |-> r.emitted, notified |-> 0]
  /\ UNCHANGED <<reducer, rchan, gameVars, machineVars, setup>>

\* an EVENT of the client reaches the master
ReduxGame_receive ==
  /\ rmaster.inbox # <<>>
  /\ LET r == ReduxGame_handleEvent(reducer, [rmaster EXCEPT !.inbox = Tail(@)],
                                    Head(rmaster.inbox))
     IN /\ rmaster' = r.m
        /\ rlast' = [kind |-> "masterReceive", name |-> Head(rmaster.inbox),
                     calls |-> r.calls, emitted |-> <<>>, notified |-> r.notified]
  /\ UNCHANGED <<reducer, rstore, rchan, gameVars, machineVars, setup>>

\* application code of the master calls emitEvent(name)
ReduxGame_emitEvent(name) ==
  /\ LET r == ReduxGame_handleEvent(reducer, rmaster, name)
     IN /\ rmaster' = r.m
        /\ rlast' = [kind |-> "masterEmit", name |-> name, calls |-> r.calls,
                     emitted |-> <<>>, notified |-> r.notified]
  /\ UNCHANGED <<reducer, rstore, rchan, gameVars, machineVars, setup>>

\* the debounce timer of the master fires: broadcastState with the default
\* filter sends the state of the store to the client
ReduxGame_flush ==
  /\ rmaster.timers > 0
  /\ Len(rchan) < MaxQueue
  /\ rchan' = Append(rchan, rmaster.state)
  /\ rmaster' = [rmaster EXCEPT !.timers = @ - 1]
  /\ rlast' = [kind |-> "flush", calls |-> <<>>, emitted |-> <<>>, notified |-> 0]
  /\ UNCHANGED <<reducer, rstore, gameVars, machineVars, setup>>

NextRedux ==
  \/ \E v \in Snapshots : ReduxSend(v)
  \/ ReduxGameClient_onUpdate
  \/ \E name \in ReduxInputs : ReduxGameClient_emitEvent(name)
  \/ ReduxGame_receive
  \/ \E name \in ReduxInputs : ReduxGame_emitEvent(name)
  \/ ReduxGame_flush

\* no Reducer game runs in the room
ReduxIdle ==
  /\ reducer = "plain"
  /\ rstore = reducerInitialState
  /\ rchan = <<>>
  /\ rlast = [kind |-> "init", calls |-> <<>>, emitted |-> <<>>, notified |-> 0]
  /\ rmaster = [state |-> reducerInitialState, timers |-> 0, inbox |-> <<>>]

\* ------------------------------------------------------- Machine variant
\* the machine of defineXStateGame({ machine }): idle -start-> playing,
\* playing -score-> playing (assign count + 1), playing -finish-> done (final)
FinalStates == {"done"}
machineInitialState == [value |-> "idle", context |-> [count |-> 0]]
MachineInputs == {"start", "score", "finish", "unknown"}

\* machine.transition(state, event)
transition(st, name) ==
  CASE st.value = "idle" /\ name = "start" -> [st EXCEPT !.value = "playing"]
    [] st.value = "playing" /\ name = "score" ->
         [st EXCEPT !.context.count = (@ + 1) % ScoreMod]
    [] st.value = "playing" /\ name = "finish" -> [st EXCEPT !.value = "done"]
    [] OTHER -> st

\* the state getter: pick(this.service.state, ["value", "context"])
XStateGame_state(m) == [value |-> m.value, context |-> m.context]

\* mutant: a stopped service still takes the event
XStateGame_handleEvent_running(m, name) ==
  [m |-> [m EXCEPT !.value = transition(XStateGame_state(m), name).value,
                   !.context = transition(XStateGame_state(m), name).context,
                   !.timers = debounce(@)],
   notified |-> 1]

\* XStateGame.handleEvent: service.send(event).  The interpreter stops when
\* the machine enters a final state; a stopped service ignores what it is
\* sent.  A running one takes the transition and calls the onChange listener.
XStateGame_handleEvent(m, name) ==
  IF m.value \in FinalStates
    THEN [m |-> m, notified |-> 0]
    ELSE [m |-> [m EXCEPT !.value = transition(XStateGame_state(m), name).value,
                          !.context = transition(XStateGame_state(m), name).context,
                          !.timers = debounce(@)],
          notified |-> 1]

\* internalEmitEvent hands an envelope of type name to handleEvent: an EVENT
\* of a client reached the master, or its application code called emitEvent
MachineEmit(name) ==
  /\ LET r == XStateGame_handleEvent(machine, name)
     IN /\ machine' = r.m
        /\ mlast' = [kind |-> "send", name |-> name,
                     before |-> XStateGame_state(machine), notified |-> r.notified]
  /\ UNCHANGED <<gameVars, reduxVars, setup>>

\* the debounce timer fires: broadcastState sends the state to every player
MachineFlush ==
  /\ machine.timers > 0
  /\ {p \in players : Len(chan[p]) >= MaxQueue} = {}
  /\ chan' = [a \in DOMAIN chan |->
                IF a \in players
                  THEN Append(chan[a], Msg(UPDATE, XStateGame_state(machine), MasterId))
                  ELSE chan[a]]
  /\ machine' = [machine EXCEPT !.timers = @ - 1]
  /\ mlast' = [kind |-> "flush", name |-> "",
               before |-> XStateGame_state(machine), notified |-> 0]
  /\ last' = [kind |-> "flush", who |-> MasterId, trace |-> <<>>]
  /\ synced' = [c \in Players |-> FALSE]
  /\ UNCHANGED <<players, state, timers, store, emits, notifs, dirty, present, reduxVars, setup>>

\* no Machine game runs in the room
MachineIdle ==
  /\ machine = [value |-> machineInitialState.value,
                context |-> machineInitialState.context, timers |-> 0]
  /\ mlast = [kind |-> "init", name |-> "",
              before |-> machineInitialState, notified |-> 0]

\* ------------------------------------------------------------------ Init
InitGame ==
  /\ players = Players
  /\ state = initialState
  /\ timers = 0
  /\ chan = [a \in Players \cup {MasterId} |-> <<>>]
  /\ store = [c \in Players |-> initialState]
  /\ emits = 0
  /\ notifs = 0
  /\ dirty = [c \in Players |-> FALSE]
  /\ present = Players
  /\ synced = [c \in Players |-> FALSE]
  /\ last = [kind |-> "init", who |-> MasterId, trace |-> <<>>]

Init ==
  /\ InitGame
  /\ ReduxIdle
  /\ MachineIdle
  /\ faulty = 0
  /\ variant = "merge"

\* --------------------------------------------------------------- actions
\* a player joins the room
Join(p) ==
  /\ p \notin players
  /\ players' = players \cup {p}
  /\ last' = [kind |-> "join", who |-> p, trace |-> <<>>]
  /\ UNCHANGED <<state, timers, chan, store, emits, notifs, dirty, synced, present, reduxVars, machineVars, setup>>

\* a player leaves the room; the transport is ordered, so the master has
\* handled everything the player sent before it learns of the departure
Leave(p) ==
  /\ p \in players
  /\ {i \in 1..Len(chan[MasterId]) : chan[MasterId][i].senderId = p} = {}
  /\ players' = players \ {p}
  /\ chan' = [chan EXCEPT ![p] = <<>>]
  /\ last' = [kind |-> "leave", who |-> p, trace |-> <<>>]
  /\ UNCHANGED <<state, timers, store, emits, notifs, dirty, synced, present, reduxVars, machineVars, setup>>

\* application code of client c calls emitEvent(name, payload)
ClientEmit(c, name, payload) ==
  /\ c \in players
  /\ emits < MaxEmits
  /\ \E acc \in {StatefulGameClient_emitEvent(ClientAcc(c), name, payload)} :
        /\ store' = [store EXCEPT ![c] = acc.state]
        /\ dirty' = [dirty EXCEPT ![c] = acc.dirty]
        /\ synced' = [synced EXCEPT ![c] = @ /\ SelectTrace(acc.trace, "setState") = <<>>]
        /\ chan' = Transport(chan, acc.out)
        /\ last' = [kind |-> "clientEmit", who |-> c, trace |-> acc.trace]
  /\ emits' = emits + 1
  /\ UNCHANGED <<players, state, timers, notifs, present, reduxVars, machineVars, setup>>

\* application code of the master calls emitEvent(name, payload)
MasterEmit(name, payload, options) ==
  /\ emits < MaxEmits
  /\ \E acc \in {emitEvent(MasterAcc, name, payload, options)} :
        /\ state' = acc.state
        /\ timers' = acc.timers
        /\ notifs' = acc.notifs
        /\ present' = IF acc.notifs > notifs THEN players ELSE present
        /\ chan' = Transport(chan, acc.out)
        /\ last' = [kind |-> "masterEmit", who |-> MasterId, name |-> name,
                    payload |-> payload, options |-> options,
                    thrown |-> acc.thrown, trace |-> acc.trace]
  /\ emits' = emits + 1
  /\ UNCHANGED <<players, store, dirty, synced, reduxVars, machineVars, setup>>

\* the subscription of the constructor: an EVENT message reaches the master.
\* Messages of one sender arrive in the order sent.
MasterReceive(i) ==
  /\ i \in 1..Len(chan[MasterId])
  /\ {j \in 1..(i - 1) : chan[MasterId][j].senderId = chan[MasterId][i].senderId} = {}
  /\ LET m == chan[MasterId][i]
         rest == [a \in DOMAIN chan |->
                    IF a = MasterId
                      THEN SubSeq(chan[a], 1, i - 1) \o SubSeq(chan[a], i + 1, Len(chan[a]))
                      ELSE chan[a]]
     IN \E acc \in {IF m.eventId = EVENT
                        THEN internalEmitEvent(MasterAcc, m.eventData.name,
                                               m.eventData.payload, CLIENT,
                                               getPlayer(players, m.senderId))
                        ELSE MasterAcc} :
          /\ state' = acc.state
          /\ timers' = acc.timers
          /\ notifs' = acc.notifs
          /\ present' = IF acc.notifs > notifs THEN players ELSE present
          /\ chan' = Transport(rest, acc.out)
          /\ last' = [kind |-> "masterReceive", who |-> m.senderId, msg |-> m,
                      thrown |-> acc.thrown, trace |-> acc.trace]
  /\ UNCHANGED <<players, store, emits, dirty, synced, reduxVars, machineVars, setup>>

\* the debounce timer fires: broadcastState runs
Flush ==
  /\ timers > 0
  /\ {p \in players : Len(chan[p]) >= MaxQueue} = {}
  /\ \E acc \in {broadcastState(MasterAcc, playerList(players))} :
        /\ chan' = Transport(chan, acc.out)
        /\ last' = [kind |-> "flush", who |-> MasterId, coalesced |-> notifs,
                    thrown |-> acc.thrown, trace |-> acc.trace]
  /\ timers' = timers - 1
  /\ notifs' = 0
  /\ synced' = [c \in Players |-> FALSE]
  /\ UNCHANGED <<players, state, store, emits, dirty, present, reduxVars, machineVars, setup>>

\* a custom event reaches client c
ClientReceive(c) ==
  /\ chan[c] # <<>>
  /\ \E m \in {Head(chan[c])} :
     \E acc \in {onCustomEvent(ClientAcc(c), m)} :
        /\ store' = [store EXCEPT ![c] = acc.state]
        /\ dirty' = [dirty EXCEPT ![c] = acc.dirty]
        /\ synced' = [synced EXCEPT ![c] =
                         IF m.senderId = MasterId /\ m.eventId = UPDATE
                           THEN Tail(chan[c]) = <<>> ELSE @]
        /\ chan' = Transport([chan EXCEPT ![c] = Tail(@)], acc.out)
        /\ last' = [kind |-> "clientReceive", who |-> c, msg |-> m, before |-> store[c],
                    trace |-> acc.trace]
  /\ UNCHANGED <<players, state, timers, emits, notifs, present, reduxVars, machineVars, setup>>

Next ==
  \/ \E p \in Roamers : Join(p)
  \/ \E p \in Roamers : Leave(p)
  \/ \E c \in Players, in \in Inputs : ClientEmit(c, in[1], in[2])
  \/ \E in \in Inputs, options \in EmitOptions : MasterEmit(in[1], in[2], options)
  \/ \E i \in 1..MaxEmits * 2 : MasterReceive(i)
  \/ Flush
  \/ \E c \in Players : ClientReceive(c)

Spec == Init /\ [][Next]_vars

\* what a player may send to another player as a custom event: any event id
\* of the protocol, with data that looks like a snapshot
PeerEventIds == {UPDATE, EVENT}
ForgedState == [score |-> 1, hands |-> Swap(initialState.hands), hand |-> 0]

\* application code of player d sends a custom event to client c through
\* the Play SDK, outside the game client
PeerSend(d, c, eventId) ==
  /\ d \in players
  /\ c \in players
  /\ d # c
  /\ emits < MaxEmits
  /\ Len(chan[c]) < MaxQueue
  /\ chan' = [chan EXCEPT ![c] = Append(@, Msg(eventId, ForgedState, d))]
  /\ emits' = emits + 1
  /\ last' = [kind |-> "peerSend", who |-> d, trace |-> <<>>]
  /\ UNCHANGED <<players, state, timers, store, notifs, dirty, synced, present, reduxVars, machineVars, setup>>

NextPeer ==
  \/ Next
  \/ \E d \in Players, c \in Players, eventId \in PeerEventIds : PeerSend(d, c, eventId)

\* the game in a room whose players also send custom events to each other
SpecPeer == Init /\ [][NextPeer]_vars

\* The event loop runs every callback that is due: a message that arrived is
\* handled and a timer that was set fires.  Nothing obliges the application
\* to call emitEvent, or a player to join or leave.
Fairness ==
  /\ WF_vars(\E i \in 1..MaxEmits * 2 : MasterReceive(i))
  /\ WF_vars(Flush)
  /\ \A c \in Players : WF_vars(ClientReceive(c))

FairSpec == Init /\ [][Next]_vars /\ Fairness

\* the Reducer client alone, for every reducer of Reducers: createStore
\* dispatches the INIT action to obtain the first state
InitRedux ==
  /\ InitGame
  /\ MachineIdle
  /\ faulty = 0
  /\ variant = "redux"
  /\ reducer \in Reducers
  /\ rstore = ReduxGameClient_rootReducer(reducer, UNDEFINED, INIT_ACTION).state
  /\ rchan = <<>>
  /\ rlast = [kind |-> "init", calls |-> <<>>, emitted |-> <<>>, notified |-> 0]
  /\ rmaster = [state |-> authorReducer(reducer, UNDEFINED, INIT_ACTION),
                timers |-> 0, inbox |-> <<>>]

SpecRedux == InitRedux /\ [][NextRedux]_vars

\* the game with a filter that throws for one of the players
InitFault ==
  /\ InitGame
  /\ ReduxIdle
  /\ MachineIdle
  /\ faulty \in Players
  /\ variant = "merge"

SpecFault == InitFault /\ [][Next]_vars

\* the Machine variant: service.start() enters the initial state and calls
\* the onChange listener, so a flush is pending after construction
InitMachine ==
  /\ InitGame
  /\ ReduxIdle
  /\ machine = [value |-> machineInitialState.value,
                context |-> machineInitialState.context, timers |-> debounce(0)]
  /\ mlast = [kind |-> "init", name |-> "",
              before |-> machineInitialState, notified |-> 1]
  /\ faulty = 0
  /\ variant = "machine"

NextMachine ==
  \/ \E name \in MachineInputs : MachineEmit(name)
  \/ MachineFlush
  \/ \E c \in Players : ClientReceive(c)

SpecMachine == InitMachine /\ [][NextMachine]_vars

\* a room runs one game of one variant
InitAll == Init \/ InitRedux \/ InitMachine

NextAll ==
  \/ variant = "merge" /\ Next
  \/ variant = "redux" /\ NextRedux
  \/ variant = "machine" /\ NextMachine

SpecAll == InitAll /\ [][NextAll]_vars

\* The event loop of every variant runs the callbacks that are due.  The
\* timer of the Reducer master fires however often a snapshot is put in
\* flight to the client in between: the length of the queue is a bound of
\* the model, not a condition of the timer.
FairnessAll ==
  /\ Fairness
  /\ WF_vars(ReduxGame_receive)
  /\ WF_vars(ReduxGameClient_onUpdate)
  /\ SF_vars(ReduxGame_flush)
  /\ WF_vars(MachineFlush)

FairSpecAll == InitAll /\ [][NextAll]_vars /\ FairnessAll

\* ------------------------------------------------------- trace helpers
MasterKinds == {"masterEmit", "masterReceive"}

\* the UPDATE messages a macrotask sent
UpdateSends(trace) ==
  SelectSeq(trace, LAMBDA e : e.t = "send" /\ e.msg.eventId = UPDATE)

\* the value of key k after the setState calls ps, starting from record before
LastWrite(ps, k, before) ==
  LET idx == {i \in 1..Len(ps) : k \in DOMAIN ps[i].partial}
  IN IF idx = {} THEN before[k]
     ELSE ps[CHOOSE i \in idx : \A j \in idx : j <= i].partial[k]

FoldedState(before, ps) ==
  [k \in (DOMAIN before) \cup UNION {DOMAIN ps[i].partial : i \in 1..Len(ps)} |->
     LastWrite(ps, k, before)]

\* ---------------------------------------------------------------- claims

\* C1: any number n >= 1 of change notifications made before the deferred
\* flush runs leaves exactly one flush pending; that flush sends exactly one
\* UPDATE to each connected player and none to anybody else, and no other
\* macrotask sends an UPDATE.
C1_OneFlushPerBatch ==
  /\ notifs > 0 => timers = 1
  /\ last.kind = "flush" =>
       /\ last.coalesced >= 1
       /\ timers = 0
       /\ \A p \in Players :
            Len(SelectSeq(UpdateSends(last.trace), LAMBDA e : p \in e.to))
              = IF p \in players THEN 1 ELSE 0
  /\ last.kind # "flush" => UpdateSends(last.trace) = <<>>

\* a flush that coalesced at least two notifications, with both players connected
C1_Witness ==
  /\ last.kind = "flush"
  /\ last.coalesced >= 2
  /\ players = Players
  /\ Len(UpdateSends(last.trace)) = 2

\* C2: every UPDATE is sent by a flush and carries filter(S, p) for the state
\* S the master holds when the flush runs; a state that existed only inside
\* a batch is not sent.
C2_FinalStateOnly ==
  \A i \in 1..Len(UpdateSends(last.trace)) :
    LET e == UpdateSends(last.trace)[i]
    IN /\ last.kind = "flush"
       /\ \A p \in e.to : e.msg.eventData = filter(state, Player(p))

\* the flush after a "deal" from the initial state: the batch went through
\* score 0 with swapped hands, the snapshot carries score 1
C2_Witness ==
  /\ last.kind = "flush"
  /\ last.coalesced = 2
  /\ state.hands # initialState.hands
  /\ \E i \in 1..Len(last.trace) :
       /\ last.trace[i].t = "send"
       /\ last.trace[i].msg.eventData.score = 1

\* C3: the UPDATE carrying the snapshot computed for player p is addressed
\* to p's actor id alone, so every snapshot in flight to p shows p's own hand.
C3_OwnSnapshotOnly ==
  /\ \A i \in 1..Len(UpdateSends(last.trace)) :
       LET e == UpdateSends(last.trace)[i]
       IN \E p \in players :
            /\ e.to = {p}
            /\ e.msg.eventData.hand = state.hands[p]
  /\ \A p \in Players : \A i \in 1..Len(chan[p]) :
       chan[p][i].eventId = UPDATE =>
         chan[p][i].eventData.hand = chan[p][i].eventData.hands[p]

\* both players have a snapshot in flight and the two differ in the hand
C3_Witness ==
  /\ chan[1] # <<>>
  /\ chan[2] # <<>>
  /\ Head(chan[1]).eventData.hand # Head(chan[2]).eventData.hand
  /\ Head(chan[1]).eventData.hands = Head(chan[2]).eventData.hands

\* C4: after a Mutable-Merge client handled an UPDATE of the master with
\* value v its state is exactly v, whatever it set optimistically before.
C4_SnapshotReplaces ==
  (last.kind = "clientReceive" /\ last.msg.senderId = MasterId
     /\ last.msg.eventId = UPDATE)
    => store[last.who] = last.msg.eventData

\* the snapshot removed a field that only the optimistic handler had written
C4_Witness ==
  /\ last.kind = "clientReceive"
  /\ last.msg.eventId = UPDATE
  /\ "guess" \in DOMAIN last.before
  /\ "guess" \notin DOMAIN store[last.who]

\* C7: the state of the master after a macrotask is the left-to-right
\* shallow merge of the partials its setState calls passed into the state
\* before it; a flush, and every other macrotask, leaves the state alone.
C7_ShallowMergeFold ==
  [][LET ps == IF last'.kind \in MasterKinds
                 THEN SelectTrace(last'.trace, "setState") ELSE <<>>
     IN state' = FoldedState(state, ps)]_vars

\* a batch of two merges ran after an earlier flush: one key overwritten,
\* the other kept
C7_Witness ==
  /\ last.kind \in MasterKinds
  /\ Len(SelectTrace(last.trace, "setState")) = 2
  /\ state.hands = initialState.hands
  /\ state.score = 0
  /\ emits = 2

\* C9: one emitEvent call of a client sends one EVENT {name, payload} to the
\* master and to nobody else, handler or not; the handler, when there is one,
\* runs inside the call after the send, and its merges are in the store when
\* the call returns.
C9_ClientEmitSendsOnce ==
  [][last'.kind = "clientEmit" =>
       LET c == last'.who
           tr == last'.trace
           calls == SelectTrace(tr, "emitEvent")
       IN /\ Len(calls) >= 1
          /\ chan' = [chan EXCEPT ![MasterId] =
                        @ \o [i \in 1..Len(calls) |->
                                Msg(EVENT, [name |-> calls[i].name,
                                            payload |-> calls[i].payload], c)]]
          /\ \A j \in 1..Len(tr) :
               tr[j].t = "emitEvent" =>
                 /\ j + 2 <= Len(tr)
                 /\ tr[j + 1].t = "send"
                 /\ tr[j + 1].to = {MasterId}
                 /\ tr[j + 1].msg.eventData.name = tr[j].name
                 /\ tr[j + 2].t = "handleEvent"
                 /\ tr[j + 2].event.type = tr[j].name
                 /\ tr[j].name \in DOMAIN clientEvents =>
                      (j + 3 <= Len(tr) /\ tr[j + 3].t = "handler")
          /\ store' = [store EXCEPT ![c] =
                         FoldedState(store[c], SelectTrace(tr, "setState"))]]_vars

\* an emitEvent call whose handler changed the state of the client
C9_Witness ==
  /\ last.kind = "clientEmit"
  /\ SelectTrace(last.trace, "setState") # <<>>
  /\ store[last.who] # initialState
  /\ Len(chan[MasterId]) = 1

\* C10: the envelope the master builds for an EVENT {name, payload} of sender
\* s has type = name, payload = payload, emitterEnv = CLIENT, env = SERVER
\* and emitter = room.getPlayer(s).
C10_RemoteEnvelope ==
  (last.kind = "masterReceive" /\ last.msg.eventId = EVENT) =>
    LET hs == SelectTrace(last.trace, "handleEvent")
    IN /\ hs # <<>>
       /\ hs[1].event.type = last.msg.eventData.name
       /\ hs[1].event.payload = last.msg.eventData.payload
       /\ hs[1].event.emitterEnv = CLIENT
       /\ hs[1].event.env = SERVER
       /\ hs[1].event.emitter = getPlayer(players, last.msg.senderId)
       /\ hs[1].event.emitter = Player(last.msg.senderId)

\* the master handled an EVENT whose payload names the context keys itself
C10_Witness ==
  /\ last.kind = "masterReceive"
  /\ "emitterEnv" \in DOMAIN last.msg.eventData.payload
  /\ SelectTrace(last.trace, "handler") # <<>>

\* C5: dispatching the replace action with value v leaves getState() equal
\* to v for every reducer the author supplies.
C5_ReplaceIsExact ==
  rlast.kind = "update" => rstore = rlast.value

\* C6: the author's reducer is never called with the REPLACE_STATE action.
C6_ReplaceNotSeenByAuthor ==
  \A i \in 1..Len(rlast.calls) : rlast.calls[i].action.type # ACTION_REPLACE_STATE

\* C8 as stated: an optimistic change of a client is eventually overwritten
\* by an UPDATE of the master.
C8_AlwaysOverwritten ==
  \A c \in Players : dirty[c] ~> ~dirty[c]

\* the EVENT i in flight to the master makes it call broadcastState
Notifies(i) ==
  LET m == chan[MasterId][i]
  IN internalEmitEvent(MasterAcc, m.eventData.name, m.eventData.payload, CLIENT,
                       getPlayer(players, m.senderId)).notifs > notifs

\* client c changed its state optimistically and an EVENT it sent, whose
\* handling on the master changes the state of the master, is in flight
Owed(c) ==
  /\ dirty[c]
  /\ c \in players
  /\ \E i \in 1..Len(chan[MasterId]) :
       chan[MasterId][i].senderId = c /\ Notifies(i)

\* C8 amended: the optimistic change is eventually overwritten when the
\* master's handler of an EVENT the client sent calls setState, unless the
\* client leaves the room first.
C8_OverwrittenWhenMasterMutates ==
  \A c \in Players : Owed(c) ~> (~dirty[c] \/ c \notin players)

\* the optimistic change of client 1 has just been overwritten by a snapshot
\* the master sent after handling the client's EVENT
C8_Witness ==
  /\ last.kind = "clientReceive"
  /\ last.who = 1
  /\ last.before # initialState
  /\ last.before.score # store[1].score
  /\ ~dirty[1]
  /\ chan[MasterId] = <<>>


\* the envelopes handed to handleEvent during the last macrotask
Envelopes == [i \in 1..Len(SelectTrace(last.trace, "handleEvent")) |->
                SelectTrace(last.trace, "handleEvent")[i].event]

\* C11: the envelope of an emitEvent(name, payload, options) call of the
\* application on the master has emitterEnv = SERVER, env = SERVER and
\* emitter = options.emitter, undefined when no option is given.
C11_LocalEnvelope ==
  last.kind = "masterEmit" =>
    /\ Envelopes # <<>>
    /\ Envelopes[1].emitterEnv = SERVER
    /\ Envelopes[1].env = SERVER
    /\ Envelopes[1].emitter = last.options.emitter

\* the master emitted an event acting as player 1 and its handler ran
C11_Witness ==
  /\ last.kind = "masterEmit"
  /\ last.options.emitter = Player(1)
  /\ Envelopes[1].emitter = Player(1)
  /\ SelectTrace(last.trace, "handler") # <<>>

\* C12 as stated: on the master the emitter is absent if and only if the
\* envelope originated in the master process (emitterEnv = SERVER).
C12_EmitterIffClient ==
  last.kind \in MasterKinds =>
    \A i \in 1..Len(Envelopes) :
      (Envelopes[i].emitter = UNDEFINED) <=> (Envelopes[i].emitterEnv = SERVER)

\* C12 amended: every client-originated envelope carries the sender as its
\* emitter, an envelope without emitter originated in the master process, and
\* a master-originated envelope has an emitter exactly when the emitEvent call
\* was given the option.
C12_EmitterAbsentOnlyOnMaster ==
  last.kind \in MasterKinds =>
    /\ \A i \in 1..Len(Envelopes) :
         /\ Envelopes[i].emitterEnv = CLIENT => Envelopes[i].emitter = Player(last.who)
         /\ Envelopes[i].emitter = UNDEFINED => Envelopes[i].emitterEnv = SERVER
    /\ last.kind = "masterEmit" =>
         (Envelopes[1].emitter = UNDEFINED <=> last.options.emitter = UNDEFINED)
    /\ (last.kind = "masterReceive" /\ last.msg.eventId = EVENT) =>
         Envelopes[1].emitterEnv = CLIENT

\* the master handled the EVENT of a client whose handler emitted an event
\* itself: the first envelope has an emitter, the nested one has none
C12_Witness ==
  /\ last.kind = "masterReceive"
  /\ Len(Envelopes) = 2
  /\ Envelopes[1].emitter = Player(last.who)
  /\ Envelopes[2].emitter = UNDEFINED
  /\ Envelopes[2].emitterEnv = SERVER

\* C13: every envelope handled on the master has env = SERVER and every
\* envelope handled on a client has env = CLIENT, remote, local or nested.
C13_EnvIsWhereHandled ==
  \A i \in 1..Len(Envelopes) :
    /\ last.kind \in MasterKinds => Envelopes[i].env = SERVER
    /\ last.kind = "clientEmit" => Envelopes[i].env = CLIENT

\* a client handled an event whose handler emitted another one: both
\* envelopes were handled on the client
C13_Witness ==
  /\ last.kind = "clientEmit"
  /\ Len(Envelopes) = 2
  /\ Envelopes[1].env = CLIENT
  /\ Envelopes[2].env = CLIENT
  /\ dirty[last.who]


C15_OtherPlayersServed ==
  (last.kind = "flush" /\ faulty \in players) =>
    \A q \in players \ {faulty} :
      Len(SelectSeq(UpdateSends(last.trace), LAMBDA e : q \in e.to)) = 1

\* C16: when a handler of the master throws after k setState calls, the
\* fault leaves the routing entry point (nothing catches it, nothing runs
\* after it) and the state keeps exactly the k merges made before it.
C16_FaultKeepsMutations ==
  [][(last'.kind \in MasterKinds /\ SelectTrace(last'.trace, "throw") # <<>>) =>
       LET ps == SelectTrace(last'.trace, "setState")
       IN /\ last'.thrown
          /\ last'.trace[Len(last'.trace)].t = "throw"
          /\ Len(SelectTrace(last'.trace, "throw")) = 1
          /\ SelectTrace(last'.trace, "return") = <<>>
          /\ state' = FoldedState(state, ps)
          /\ notifs' = notifs + Len(ps)]_vars

\* the handler of "fail" threw after its first setState: the score is
\* merged, the hands it would have swapped next are not
C16_Witness ==
  /\ last.kind = "masterReceive"
  /\ last.thrown
  /\ Len(SelectTrace(last.trace, "setState")) = 1
  /\ state.score = 1
  /\ state.hands = initialState.hands
  /\ timers = 1


C18_NotifiesWithoutDiffing ==
  [][/\ last'.kind \in MasterKinds =>
          LET k == Len(SelectTrace(last'.trace, "setState"))
          IN /\ notifs' = notifs + k
             /\ Len(SelectTrace(last'.trace, "broadcastState")) = k
             /\ k >= 1 => timers' = 1
     /\ last'.kind = "flush" =>
          \A p \in Players :
            chan'[p] = IF p \in players
                         THEN Append(chan[p], Msg(UPDATE, filter(state, Player(p)), MasterId))
                         ELSE chan[p]]_vars

\* two flushes sent player 1 the same snapshot: the setState between them
\* merged a partial that changed nothing
C18_Witness ==
  /\ last.kind = "flush"
  /\ last.coalesced = 1
  /\ Len(chan[1]) = 2
  /\ chan[1][1] = chan[1][2]
  /\ chan[1][1].eventData = filter(initialState, Player(1))


\* the handlers still running after the first i - 1 entries of a trace, the
\* innermost first; the overlap mark when an entry is out of place: a return that
\* is not the return of the innermost running handler, an envelope routed or
\* a state mutated while no handler runs
RECURSIVE Running(_, _, _)
Running(trace, i, stack) ==
  IF i > Len(trace) THEN stack
  ELSE LET e == trace[i]
       IN CASE e.t = "handler" -> Running(trace, i + 1, <<e.event>> \o stack)
            [] e.t = "return" ->
                 IF stack # <<>> /\ Head(stack) = e.event
                   THEN Running(trace, i + 1, Tail(stack))
                   ELSE <<[overlap |-> TRUE]>>
            [] e.t = "handleEvent" ->
                 IF (stack = <<>>) = (SelectTrace(SubSeq(trace, 1, i - 1), "handleEvent") = <<>>)
                   THEN Running(trace, i + 1, stack)
                   ELSE <<[overlap |-> TRUE]>>
            [] e.t = "setState" ->
                 IF stack # <<>> THEN Running(trace, i + 1, stack) ELSE <<[overlap |-> TRUE]>>
            [] OTHER -> Running(trace, i + 1, stack)

\* C19 as stated: the handling of two envelopes never overlaps, an envelope
\* is routed only after every handler started before it has returned.
C19_NoOverlap ==
  \A i, j \in 1..Len(last.trace) :
    (i < j /\ last.trace[i].t = "handler" /\ last.trace[j].t = "handleEvent") =>
      \E k \in (i + 1)..(j - 1) :
        last.trace[k].t = "return" /\ last.trace[k].event = last.trace[i].event

\* C19 amended: a message from outside (remote EVENT, emitEvent call of the
\* application, UPDATE arrival) is handled in one macrotask, in the order
\* its sender sent it, with every mutation made while its handler runs; an
\* emitEvent call of a running handler is handled inside that handler, which
\* resumes afterwards: handlers nest, and all have returned when the
\* macrotask ends unless one threw.
C19_NestedToCompletion ==
  [][/\ last'.kind \in MasterKinds \cup {"clientEmit"} =>
          /\ Running(last'.trace, 1, <<>>) # <<[overlap |-> TRUE]>>
          /\ (last'.kind = "clientEmit" \/ ~last'.thrown) =>
               Running(last'.trace, 1, <<>>) = <<>>
     /\ last'.kind = "masterReceive" =>
          LET idx == {i \in 1..Len(chan[MasterId]) :
                        chan[MasterId][i].senderId = last'.who}
          IN /\ idx # {}
             /\ last'.msg = chan[MasterId][CHOOSE i \in idx : \A j \in idx : i <= j]
     /\ last'.kind = "clientReceive" =>
          /\ last'.msg = Head(chan[last'.who])
          /\ last'.msg.eventId = UPDATE => store'[last'.who] = last'.msg.eventData]_vars

\* the master handled an EVENT whose handler emitted an event itself: the
\* nested envelope was handled, with its mutation, before the enclosing
\* handler returned
C19_Witness ==
  /\ last.kind = "masterReceive"
  /\ Len(SelectTrace(last.trace, "handler")) = 2
  /\ Len(SelectTrace(last.trace, "setState")) = 1
  /\ last.trace[Len(last.trace)].t = "return"
  /\ last.trace[Len(last.trace)].event.type = "chain"
  /\ ~C19_NoOverlap


\* C20: a client emits one STATE_UPDATE carrying its state for every
\* snapshot it applies and for every setState or dispatch of its handlers,
\* and none otherwise, in the Mutable-Merge and in the Reducer client.
C20_OneStateUpdatePerChange ==
  [][LET ups == SelectTrace(last'.trace, STATE_UPDATE)
         sets == SelectTrace(last'.trace, "setState")
     IN /\ last'.kind = "clientEmit" =>
             /\ Len(ups) = Len(sets)
             /\ \A i \in 1..Len(ups) :
                  ups[i].state = FoldedState(store[last'.who], SubSeq(sets, 1, i))
             /\ store'[last'.who] = FoldedState(store[last'.who], sets)
        /\ last'.kind = "clientReceive" =>
             IF last'.msg.senderId = MasterId /\ last'.msg.eventId = UPDATE
               THEN /\ Len(ups) = 1
                    /\ ups[1].state = last'.msg.eventData
                    /\ store'[last'.who] = ups[1].state
               ELSE ups = <<>> /\ store' = store
        /\ last'.kind \notin {"clientEmit", "clientReceive"} =>
             ups = <<>> /\ store' = store
        /\ rlast'.kind = "update" => rlast'.emitted = <<rstore'>>
        /\ rlast'.kind = "clientEmit" =>
             /\ Len(rlast'.emitted) = Len(rlast'.calls)
             /\ rlast'.calls = <<>> => rstore' = rstore
             /\ rlast'.calls # <<>> => rlast'.emitted = <<rstore'>>
        /\ rlast'.kind \notin {"update", "clientEmit"} =>
             rlast'.emitted = <<>> /\ rstore' = rstore]_vars

\* a Mutable-Merge client applied a snapshot equal to the state it held:
\* the STATE_UPDATE was emitted all the same
C20_Witness ==
  /\ last.kind = "clientReceive"
  /\ last.msg.eventId = UPDATE
  /\ last.before = store[last.who]
  /\ Len(SelectTrace(last.trace, STATE_UPDATE)) = 1
  /\ variant = "merge"


\* C21: on the master a change (setState of the Mutable-Merge game, dispatch
\* of the Reducer game, send to the running machine) that has not been
\* flushed leads to a flush, run in a later macrotask, that sends every
\* player then connected an UPDATE computed from the state the master holds
\* at the flush; no change stays unbroadcast.
C21_ChangeEventuallyFlushed ==
  /\ (notifs > 0) ~>
       (/\ last.kind = "flush"
        /\ notifs = 0
        /\ \A p \in players :
             \E i \in 1..Len(UpdateSends(last.trace)) :
               /\ UpdateSends(last.trace)[i].to = {p}
               /\ UpdateSends(last.trace)[i].msg.eventData = filter(state, Player(p)))
  /\ (rmaster.timers > 0) ~>
       (/\ rlast.kind = "flush"
        /\ rmaster.timers = 0
        /\ rchan # <<>>
        /\ rchan[Len(rchan)] = rmaster.state)
  /\ (machine.timers > 0) ~>
       (/\ mlast.kind = "flush"
        /\ machine.timers = 0
        /\ \A p \in players :
             /\ chan[p] # <<>>
             /\ chan[p][Len(chan[p])] = Msg(UPDATE, XStateGame_state(machine), MasterId))

\* the flush that followed two changes of the Mutable-Merge master sent one
\* UPDATE to each of the two players connected
C21_Witness ==
  /\ variant = "merge"
  /\ last.kind = "flush"
  /\ last.coalesced = 2
  /\ emits = 2
  /\ players = Players
  /\ Len(chan[2]) = 1
  /\ Len(chan[1]) = 1
  /\ state.score = 0


\* C22: an event routed on the master is handled on the master alone: the
\* macrotask puts no message in flight to a client and changes no client's
\* state, in any of the three variants; whatever the master sends to a
\* client is an UPDATE.
C22_MasterEventStaysOnMaster ==
  [][/\ last'.kind \in MasterKinds =>
          /\ SelectTrace(last'.trace, "send") = <<>>
          /\ \A p \in Players : chan'[p] = chan[p]
          /\ store' = store
     /\ last'.kind = "flush" =>
          \A i \in 1..Len(SelectTrace(last'.trace, "send")) :
            LET e == SelectTrace(last'.trace, "send")[i]
            IN e.msg.eventId = UPDATE /\ e.to \subseteq Players
     /\ \A p \in Players : \A i \in 1..Len(chan'[p]) :
          chan'[p][i].senderId = MasterId => chan'[p][i].eventId = UPDATE
     /\ rlast'.kind \in MasterKinds => (rchan' = rchan /\ rstore' = rstore)
     /\ (mlast'.kind = "send" /\ ~(UNCHANGED machineVars)) =>
          (chan' = chan /\ store' = store)]_vars

\* the application of the master emitted an event whose handler changed the
\* state: nothing is in flight to the two connected clients, whose states
\* are as they were
C22_Witness ==
  /\ last.kind = "masterEmit"
  /\ SelectTrace(last.trace, "setState") # <<>>
  /\ state # initialState
  /\ players = Players
  /\ \A p \in Players : chan[p] = <<>> /\ store[p] = initialState


\* C23: the inner handler of an event wrapped with fromServerOnly ("grant")
\* does not run for the EVENT a client sent, neither on the master nor in
\* the client's own handling, whatever the payload says; it runs when the
\* application of the master emits the event.
C23_FromServerOnly ==
  [][LET hs == SelectTrace(last'.trace, "handleEvent")
         sets == SelectTrace(last'.trace, "setState")
     IN /\ (last'.kind = "masterReceive" /\ last'.msg.eventId = EVENT
              /\ last'.msg.eventData.name = "grant") =>
             /\ hs[1].event.emitterEnv = CLIENT
             /\ SelectTrace(last'.trace, "handler") # <<>>
             /\ sets = <<>>
             /\ state' = state /\ notifs' = notifs /\ timers' = timers
        /\ (last'.kind = "clientEmit" /\ hs[1].event.type = "grant") =>
             /\ hs[1].event.emitterEnv = CLIENT
             /\ SelectTrace(last'.trace, "handler") # <<>>
             /\ sets = <<>>
             /\ store' = store
        /\ (last'.kind = "masterEmit" /\ hs[1].event.type = "grant") =>
             /\ hs[1].event.emitterEnv = SERVER
             /\ Len(sets) = 1
             /\ state'.hands = Swap(state.hands)
             /\ notifs' = notifs + 1]_vars

\* the master received the EVENT "grant" of a client, with a payload that
\* names emitterEnv = SERVER, after its own application had emitted "grant":
\* the hands were swapped once, by the emitEvent of the master
C23_Witness ==
  /\ last.kind = "masterReceive"
  /\ last.msg.eventData.name = "grant"
  /\ last.msg.eventData.payload.emitterEnv = SERVER
  /\ state.hands = Swap(initialState.hands)
  /\ store[last.who] = initialState
  /\ emits = 2


\* nothing is in flight and no flush is pending
Quiescent ==
  /\ timers = 0
  /\ \A a \in DOMAIN chan : chan[a] = <<>>

\* C24 as stated: when nothing is in flight and no flush is pending, the
\* state of every connected client is filter(state of the master, player).
C24_Converges ==
  Quiescent => \A c \in players : store[c] = filter(state, Player(c))

\* C24 amended: when nothing is in flight and no flush is pending, every
\* connected client that applied the snapshot of the master's latest flush
\* and has called no setState since holds filter(state of the master, player).
C24_ConvergesWhenSynced ==
  Quiescent => \A c \in players : synced[c] => store[c] = filter(state, Player(c))

\* after two events that changed the state of the master, both connected
\* clients have applied the snapshot of the last flush and hold their view
\* of the state of the master
C24_Witness ==
  /\ Quiescent
  /\ emits = 2
  /\ players = Players
  /\ state.score = 1
  /\ state.hands # initialState.hands
  /\ \A c \in Players : synced[c] /\ store[c] = filter(state, Player(c))


\* the six fields of envelope e are those the router stamps, and every other
\* key of the payload is a key of the envelope
Stamped(e, name, payload, emitter, emitterEnv, env) ==
  /\ e.emitter = emitter
  /\ e.emitterEnv = emitterEnv
  /\ e.env = env
  /\ e.players = players
  /\ e.type = name
  /\ e.payload = payload
  /\ \A k \in DOMAIN payload \ {"emitter", "emitterEnv", "env", "players", "type", "payload"} :
       e[k] = payload[k]

\* C25: the envelope the master builds for a remote EVENT and for an
\* emitEvent call, and the envelope a client builds for its emitEvent call,
\* carry the stamped emitter, emitterEnv, env, players, type and payload,
\* whatever keys the payload has.
C25_ProvenanceNotSpoofed ==
  /\ (last.kind = "masterReceive" /\ last.msg.eventId = EVENT) =>
       Stamped(Envelopes[1], last.msg.eventData.name, last.msg.eventData.payload,
               Player(last.who), CLIENT, SERVER)
  /\ last.kind = "masterEmit" =>
       Stamped(Envelopes[1], last.name, last.payload, last.options.emitter, SERVER, SERVER)
  /\ last.kind = "clientEmit" =>
       LET calls == SelectTrace(last.trace, "emitEvent")
       IN /\ Len(calls) = Len(Envelopes)
          /\ \A i \in 1..Len(calls) :
               Stamped(Envelopes[i], calls[i].name, calls[i].payload,
                       Player(last.who), CLIENT, CLIENT)

\* a client emitted "score" with a payload that has the six keys, naming
\* another type, no emitter, the master as origin and no players: the
\* envelope its handler ran with carries none of these
C25_Witness ==
  /\ last.kind = "clientEmit"
  /\ Envelopes[1].payload = Spoof
  /\ Envelopes[1].type = "score"
  /\ Envelopes[1].emitter = Player(last.who)
  /\ Envelopes[1].emitterEnv = CLIENT
  /\ Envelopes[1].env = CLIENT
  /\ Envelopes[1].players = Players
  /\ SelectTrace(last.trace, "handler") # <<>>


\* C26: a client applies the data of a custom event as its state only when
\* the sender is the master and the event id is UPDATE; a custom event of
\* another player, with event id UPDATE or not, leaves the state of the
\* client as it is and emits no STATE_UPDATE.
C26_OnlyMasterUpdateApplied ==
  [][last'.kind = "clientReceive" =>
       IF last'.msg.senderId = MasterId /\ last'.msg.eventId = UPDATE
         THEN /\ store' = [store EXCEPT ![last'.who] = last'.msg.eventData]
              /\ Len(SelectTrace(last'.trace, STATE_UPDATE)) = 1
         ELSE /\ store' = store
              /\ dirty' = dirty
              /\ last'.trace = <<>>]_vars

\* a client took an UPDATE that another player had sent it: its state is the
\* one it had, not the data of the message
C26_Witness ==
  /\ last.kind = "clientReceive"
  /\ last.msg.senderId \in Players
  /\ last.msg.eventId = UPDATE
  /\ last.msg.eventData = ForgedState
  /\ store[last.who] = last.before
  /\ store[last.who] # ForgedState
  /\ last.trace = <<>>


\* C27: the master sends UPDATE messages only in a flush, and a flush is
\* pending only after a change notification made since the flush before: in
\* the Mutable-Merge and Reducer variants nothing is pending or in flight
\* after construction, a join schedules and sends nothing, and routing an
\* event whose handler calls neither setState nor dispatch schedules and
\* sends nothing.
C27_UpdateOnlyAfterNotification ==
  [][/\ variant = "merge" =>
          /\ timers' > 0 => notifs' > 0
          /\ last'.kind = "flush" => (notifs >= 1 /\ last'.coalesced = notifs)
          /\ last'.kind # "flush" => UpdateSends(last'.trace) = <<>>
          /\ last'.kind \in {"join", "leave", "clientEmit", "clientReceive"} =>
               (timers' = timers /\ notifs' = notifs)
          /\ last'.kind = "join" => chan' = chan
          /\ (last'.kind \in MasterKinds /\ SelectTrace(last'.trace, "setState") = <<>>) =>
               /\ timers' = timers /\ notifs' = notifs
               /\ \A p \in Players : chan'[p] = chan[p]
          /\ last.kind = "init" =>
               (timers = 0 /\ notifs = 0 /\ \A p \in Players : chan[p] = <<>>)
     /\ variant = "redux" =>
          /\ rmaster'.timers > rmaster.timers => rlast'.notified = 1
          /\ rlast'.kind = "flush" => rmaster.timers >= 1
          /\ rlast'.kind \in {"masterEmit", "masterReceive", "clientEmit", "update"} =>
               Len(rchan') <= Len(rchan)
          /\ (rlast'.kind \in MasterKinds /\ rlast'.calls = <<>>) =>
               (rmaster'.timers = rmaster.timers /\ rchan' = rchan)
          /\ rlast.kind = "init" => (rmaster.timers = 0 /\ rchan = <<>>)]_vars

\* the master handled the EVENT "ping" of a client, whose handler calls no
\* setState, while both players were connected: no flush is pending and
\* nothing is in flight to a player
C27_Witness ==
  /\ variant = "merge"
  /\ last.kind = "masterReceive"
  /\ last.msg.eventData.name = "ping"
  /\ SelectTrace(last.trace, "handler") # <<>>
  /\ players = Players
  /\ timers = 0
  /\ notifs = 0
  /\ \A p \in Players : chan[p] = <<>>


\* the first message of sender c in the queue ch of the master
FirstOf(ch, c) ==
  LET idx == {i \in 1..Len(ch) : ch[i].senderId = c}
  IN IF idx = {} THEN UNDEFINED ELSE ch[CHOOSE i \in idx : \A j \in idx : i <= j]

\* C28: the handler of "chain", registered on client and master, calls
\* operator.emitEvent("score") once.  One emitEvent("chain") call of a client
\* sends the EVENT "chain" and then the EVENT "score"; the master, handling
\* "chain", runs the handler of "score" once, nested, with emitterEnv =
\* SERVER, and runs it once more, with emitterEnv = CLIENT, when it handles
\* the forwarded EVENT "score", which is the next message of that client.
C28_NestedEmitHandledTwice ==
  [][LET hd == SelectTrace(last'.trace, "handler")
         tr == last'.trace
     IN /\ (last'.kind = "clientEmit" /\ SelectTrace(tr, "emitEvent")[1].name = "chain") =>
             chan'[MasterId] = chan[MasterId] \o
               <<Msg(EVENT, [name |-> "chain", payload |-> P1], last'.who),
                 Msg(EVENT, [name |-> "score", payload |-> P1], last'.who)>>
        /\ (last'.kind = "masterReceive" /\ last'.msg.eventData.name = "chain") =>
             /\ Len(hd) = 2
             /\ hd[1].event.type = "chain" /\ hd[1].event.emitterEnv = CLIENT
             /\ hd[2].event.type = "score" /\ hd[2].event.emitterEnv = SERVER
             /\ Len(SelectTrace(tr, "setState")) = 1
             /\ tr[Len(tr)] = [t |-> "return", event |-> hd[1].event]
             /\ tr[Len(tr) - 1] = [t |-> "return", event |-> hd[2].event]
             /\ FirstOf(chan'[MasterId], last'.who)
                  = Msg(EVENT, [name |-> "score", payload |-> P1], last'.who)
        /\ (last'.kind = "masterReceive" /\ last'.msg.eventData.name = "score") =>
             /\ Len(hd) = 1
             /\ hd[1].event.type = "score" /\ hd[1].event.emitterEnv = CLIENT
             /\ Len(SelectTrace(tr, "setState")) = 1]_vars

\* the only emitEvent call of the run was a client's emitEvent("chain"); the
\* master has handled "chain" and now the forwarded "score": the handler of
\* "score" added to the score twice
C28_Witness ==
  /\ last.kind = "masterReceive"
  /\ last.msg.eventData = [name |-> "score", payload |-> P1]
  /\ emits = 1
  /\ Envelopes[1].emitterEnv = CLIENT
  /\ state.score = (initialState.score + 2) % ScoreMod
  /\ chan[MasterId] = <<>>


\* the emitEvent call of the handler of event type e that emits event type f
EmitOp(e, f) ==
  LET ops == events[e]
  IN ops[CHOOSE i \in 1..Len(ops) : ops[i].op = "emitEvent" /\ ops[i].name = f]

\* C29: an event a handler of the master emits through operator.emitEvent
\* is routed and handled before that handler returns, with emitterEnv =
\* SERVER and env = SERVER, and its emitter is the options.emitter of the
\* call, undefined when none is given, whoever emitted the event the
\* handler is handling.
C29_NestedEmitIsServerOriginated ==
  last.kind \in MasterKinds =>
    LET tr == last.trace
        hs == {i \in 1..Len(tr) : tr[i].t = "handleEvent"}
    IN \A k \in hs :
         k > 1 =>
           /\ tr[k].event.emitterEnv = SERVER
           /\ tr[k].event.env = SERVER
           /\ tr[k].event.emitter = EmitOp(Envelopes[1].type, tr[k].event.type).options.emitter
           /\ tr[2] = [t |-> "handler", event |-> Envelopes[1]]
           /\ tr[Len(tr)] = [t |-> "return", event |-> Envelopes[1]]
           /\ k < Len(tr)
           /\ tr[k].event.type \in DOMAIN events =>
                \E j \in (k + 1)..(Len(tr) - 1) :
                  tr[j] = [t |-> "return", event |-> tr[k].event]

\* the master handled the EVENT "relay" of player 1: the event its handler
\* emitted as player 2 originated on the master and has player 2 as emitter
C29_Witness ==
  /\ last.kind = "masterReceive"
  /\ Len(Envelopes) = 2
  /\ Envelopes[1].type = "relay"
  /\ Envelopes[1].emitterEnv = CLIENT
  /\ Envelopes[1].emitter = Player(1)
  /\ Envelopes[2].emitterEnv = SERVER
  /\ Envelopes[2].emitter = Player(2)


\* C30: a flush sends its UPDATEs to the players in the room when the flush
\* runs, one each: a player who joined after the change was made receives
\* one, a player who left before the flush receives none.
C30_RecipientsAtFlushTime ==
  last.kind = "flush" =>
    /\ {p \in Players : \E i \in 1..Len(UpdateSends(last.trace)) :
                          p \in UpdateSends(last.trace)[i].to} = players
    /\ Len(UpdateSends(last.trace)) = Cardinality(players)
    /\ \A p \in Players \ players : chan[p] = <<>>
    /\ \A p \in players : chan[p] # <<>> /\ chan[p][Len(chan[p])].eventData = filter(state, Player(p))

\* player 2 was out of the room when the master changed its state and
\* joined before the flush: the flush sent it the snapshot
C30_Witness ==
  /\ variant = "merge"
  /\ last.kind = "flush"
  /\ present = {1}
  /\ players = Players
  /\ state # initialState
  /\ Len(chan[2]) = 1
  /\ chan[2][1].eventData = filter(state, Player(2))

====
